---- MODULE Spec2Model ----
(***************************************************************************)
(* Model of the Tools module of editor.js                                  *)
(* (src/components/modules/tools.ts): configuration validation and         *)
(* merging, the sequential preparation of the tools, the two registry maps *)
(* and the derived views.                                                  *)
(*                                                                         *)
(* Representation.  A JavaScript object with string keys that the code     *)
(* iterates (config.tools, the normalized config) is a sequence of         *)
(* [name, value] entries in insertion order.  A Map<string, Tool> is a     *)
(* sequence of tool records with distinct names, in insertion order.  A    *)
(* configuration value is either a constructor function (tag "fn") or a    *)
(* settings object (tag "obj") whose fields are a function from field      *)
(* names to strings; a class is named by a string of Classes.              *)
(***************************************************************************)
EXTENDS Integers, Sequences, FiniteSets, TLC

\* Largest number of entries of the user configuration that is explored.
MaxUserTools == 2

----------------------------------------------------------------------------
(* enum ToolType                                                           *)

Block == 0
Inline == 1
Tune == 2

ToolTypes == {Block, Inline, Tune}

----------------------------------------------------------------------------
(* Plugin classes.  The built-in ones are imported by tools.ts; the others *)
(* stand for classes a user configuration supplies.                        *)

InternalClasses ==
  {"BoldInlineTool", "ItalicInlineTool", "LinkInlineTool", "Paragraph", "Stub"}

\* ImageTool: a block tool with a static prepare hook.
\* BrokenInline: an inline tool without checkState and without prepare hook.
\* AlignTune: a block tune with a static prepare hook.
UserClasses == {"ImageTool", "BrokenInline", "AlignTune"}

Classes == InternalClasses \cup UserClasses

\* The variant a class declares by its static marker.
ClassType(c) ==
  IF c \in {"BoldInlineTool", "ItalicInlineTool", "LinkInlineTool", "BrokenInline"}
    THEN Inline
    ELSE IF c = "AlignTune" THEN Tune ELSE Block

\* _.isFunction(settings.class.prepare)
ClassHasPrepare(c) == c \in {"ImageTool", "AlignTune"}

inlineToolRequiredMethods == {"render", "surround", "checkState"}

\* The methods an instance of the class has.
InstanceMethods(c) ==
  IF c = "BrokenInline" THEN {"render", "surround"}
  ELSE IF ClassType(c) = Inline THEN inlineToolRequiredMethods
  ELSE {"render", "save"}

----------------------------------------------------------------------------
(* Configuration values                                                    *)

EmptyObj == [f \in {} |-> ""]

Fn(c) == [tag |-> "fn", cls |-> c, fields |-> EmptyObj]
Obj(fs) == [tag |-> "obj", cls |-> "", fields |-> fs]

Entry(n, v) == [name |-> n, value |-> v]

\* _.isFunction(x) for a configuration value
isFunction(v) == v.tag = "fn"

\* _.isFunction((tool as ToolSettings).class)
isFunctionClass(v) ==
  /\ v.tag = "obj"
  /\ "class" \in DOMAIN v.fields
  /\ v.fields["class"] \in Classes

\* _.isObject(x) for a configuration value
isObject(v) == v.tag = "obj"

Names(entries) == {entries[i].name : i \in 1..Len(entries)}

IndexOf(entries, n) ==
  IF n \in Names(entries)
    THEN CHOOSE i \in 1..Len(entries) : entries[i].name = n
    ELSE 0

----------------------------------------------------------------------------
(* get internalTools                                                       *)

\* Mutants of the built-in set: none at all, and one without the stub.
internalToolsNone == <<>>

internalToolsNoStub ==
  << Entry("bold", Obj([class |-> "BoldInlineTool", isInternal |-> "true"])),
     Entry("italic", Obj([class |-> "ItalicInlineTool", isInternal |-> "true"])),
     Entry("link", Obj([class |-> "LinkInlineTool", isInternal |-> "true"])),
     Entry("paragraph", Obj([class |-> "Paragraph", inlineToolbar |-> "true",
                             isInternal |-> "true"])) >>

internalTools ==
  << Entry("bold", Obj([class |-> "BoldInlineTool", isInternal |-> "true"])),
     Entry("italic", Obj([class |-> "ItalicInlineTool", isInternal |-> "true"])),
     Entry("link", Obj([class |-> "LinkInlineTool", isInternal |-> "true"])),
     Entry("paragraph", Obj([class |-> "Paragraph", inlineToolbar |-> "true",
                             isInternal |-> "true"])),
     Entry("stub", Obj([class |-> "Stub", isInternal |-> "true"])) >>

InternalNames == {"bold", "italic", "link", "paragraph", "stub"}

----------------------------------------------------------------------------
(* The user configurations explored: config.tools before prepare().        *)

UserEntries ==
  { Entry("paragraph", Obj([inlineToolbar |-> "false"])),
    Entry("bold", Obj([class |-> "BrokenInline"])),
    Entry("stub", Fn("ImageTool")),
    Entry("image", Fn("ImageTool")),
    Entry("image", Obj([inlineToolbar |-> "false"])),
    Entry("marker", Obj([class |-> "BrokenInline"])),
    Entry("align", Obj([class |-> "AlignTune", isInternal |-> "true"])) }

UserNames == {e.name : e \in UserEntries}

UserConfigs ==
  { s \in UNION {[1..k -> UserEntries] : k \in 0..MaxUserTools} :
      \A i, j \in 1..Len(s) : i # j => s[i].name # s[j].name }

----------------------------------------------------------------------------
(* _.deepMerge({}, internalTools, config.tools)                            *)

MergeFields(t, s) ==
  [f \in DOMAIN t \cup DOMAIN s |-> IF f \in DOMAIN s THEN s[f] ELSE t[f]]

\* One key of a source object merged into the target object.
MergeKey(target, e) ==
  LET i == IndexOf(target, e.name)
      merged ==
        IF isObject(e.value) /\ i # 0 /\ isObject(target[i].value)
          THEN Entry(e.name, Obj(MergeFields(target[i].value.fields, e.value.fields)))
          ELSE e
  IN IF i = 0 THEN Append(target, merged) ELSE [target EXCEPT ![i] = merged]

RECURSIVE MergeInto(_, _)
MergeInto(target, source) ==
  IF source = <<>> THEN target
  ELSE MergeInto(MergeKey(target, Head(source)), Tail(source))

\* user.defined = FALSE is a configuration without a tools property.
deepMerge(internal, user) ==
  IF user.defined
    THEN MergeInto(MergeInto(<<>>, internal), user.entries)
    ELSE MergeInto(<<>>, internal)

----------------------------------------------------------------------------
(* validateTools(): "" when the loop ends or returns, else the name of the *)
(* tool whose configuration error is thrown.                               *)

NoTool == ""

\* Mutant: a built-in name is skipped and the loop goes on (continue).
RECURSIVE CheckToolsContinue(_)
CheckToolsContinue(entries) ==
  IF entries = <<>> THEN NoTool
  ELSE LET e == Head(entries) IN
    IF e.name \in {"bold", "italic", "link", "paragraph", "stub"}
      THEN CheckToolsContinue(Tail(entries))
    ELSE IF ~isFunction(e.value) /\ ~isFunctionClass(e.value) THEN e.name
    ELSE CheckToolsContinue(Tail(entries))

RECURSIVE CheckTools(_)
CheckTools(entries) ==
  IF entries = <<>> THEN NoTool
  ELSE LET e == Head(entries) IN
    IF e.name \in Names(internalTools) THEN NoTool
    ELSE IF ~isFunction(e.value) /\ ~isFunctionClass(e.value) THEN e.name
    ELSE CheckTools(Tail(entries))

validateTools(tools) == IF tools.defined THEN CheckTools(tools.entries) ELSE NoTool

----------------------------------------------------------------------------
(* prepareConfig(): every entry becomes a settings object                  *)

\* Mutant: an object entry is reduced to its class, the settings are lost.
NormalizeEntryClassOnly(e) ==
  IF isObject(e.value) /\ "class" \in DOMAIN e.value.fields
    THEN Entry(e.name, Obj([class |-> e.value.fields["class"]]))
    ELSE IF isObject(e.value) THEN e
    ELSE Entry(e.name, Obj([class |-> e.value.cls]))

NormalizeEntry(e) ==
  IF isObject(e.value) THEN e
  ELSE Entry(e.name, Obj([class |-> e.value.cls]))

prepareConfig(tools) == [i \in 1..Len(tools) |-> NormalizeEntry(tools[i])]

----------------------------------------------------------------------------
(* getListOfPrepareFunctions(config)                                       *)

\* settings.class is undefined: reading .prepare of it throws a TypeError
HasNoClass(config) ==
  \E i \in 1..Len(config) : "class" \notin DOMAIN config[i].value.fields

\* Mutant: settings.class.prepare is taken as it is, no no-op stands in.
PrepareItemAlwaysHook(e) == [toolName |-> e.name, hasHook |-> TRUE]

PrepareItem(e) ==
  [toolName |-> e.name, hasHook |-> ClassHasPrepare(e.value.fields["class"])]

\* Mutant: the last entry of the config is left out of the list.
getListWithoutLast(config) ==
  [i \in 1..(Len(config) - 1) |-> PrepareItem(config[i])]

\* Mutant: the list is built back to front.
getListReversed(config) ==
  [i \in 1..Len(config) |-> PrepareItem(config[Len(config) + 1 - i])]

getListOfPrepareFunctions(config) ==
  [i \in 1..Len(config) |-> PrepareItem(config[i])]

----------------------------------------------------------------------------
(* ToolsFactory.get(name) over the normalized config the factory was built *)
(* with: the tool object of that name.                                     *)

FactoryGet(config, n) ==
  LET s == config[IndexOf(config, n)].value.fields IN
  [ name |-> n,
    cls |-> s["class"],
    type |-> ClassType(s["class"]),
    isInternal |-> ("isInternal" \in DOMAIN s /\ s["isInternal"] = "true") ]

----------------------------------------------------------------------------
(* Map<string, Tool>                                                       *)

Keys(m) == {m[i].name : i \in 1..Len(m)}

MapSet(m, tool) ==
  IF tool.name \in Keys(m)
    THEN [i \in 1..Len(m) |-> IF m[i].name = tool.name THEN tool ELSE m[i]]
    ELSE Append(m, tool)

----------------------------------------------------------------------------
VARIABLES
  userTools,        \* config.tools as the user gave it (the input)
  configTools,      \* this.config.tools
  pc,               \* "init", "threw", "pending" or "resolved": prepare()
  error,            \* the error prepare() threw: [kind, tool]
  factory,          \* this.factory: [created, config]
  sequenceData,     \* the list handed to _.sequence
  next,             \* index of the next entry of sequenceData
  inFlight,         \* names of the tools whose prepare hook is running
  settled,          \* the hooks that settled, in order: [toolName, result]
  toolsAvailable,   \* this.toolsAvailable
  toolsUnavailable, \* this.toolsUnavailable
  inlineTools,      \* this._inlineTools: [cached, map]
  blockTools,       \* this._blockTools: [cached, map]
  resetCalled,      \* names of the tools whose reset() destroy() has called
  ret               \* the last call of a getter or method and the value it
                    \* returned: [op, arg, name, val]; name is
                    \* config.defaultBlock as the call read it

vars == << userTools, configTools, pc, error, factory, sequenceData, next,
           inFlight, settled, toolsAvailable, toolsUnavailable, inlineTools,
           blockTools, resetCalled, ret >>

NoError == [kind |-> "none", tool |-> NoTool]
NoFactory == [created |-> FALSE, config |-> <<>>]
NoCache == [cached |-> FALSE, map |-> <<>>]
NoRet == [op |-> "none", arg |-> <<>>, name |-> "", val |-> <<>>]

Init ==
  /\ userTools \in
       {[defined |-> FALSE, entries |-> <<>>]}
         \cup {[defined |-> TRUE, entries |-> s] : s \in UserConfigs}
  /\ configTools = userTools
  /\ pc = "init"
  /\ error = NoError
  /\ factory = NoFactory
  /\ sequenceData = <<>>
  /\ next = 1
  /\ inFlight = {}
  /\ settled = <<>>
  /\ toolsAvailable = <<>>
  /\ toolsUnavailable = <<>>
  /\ inlineTools = NoCache
  /\ blockTools = NoCache
  /\ resetCalled = {}
  /\ ret = NoRet

----------------------------------------------------------------------------
(* success(data) and fallback(data): the pair of maps after the callback.  *)

\* Mutants of the callbacks: success(data) that stores nothing, fallback(data)
\* that stores into both maps, fallback(data) that stores like success(data).
successStoresNothing(av, un, tool) == [available |-> av, unavailable |-> un]

fallbackIntoBoth(av, un, tool) ==
  [available |-> MapSet(av, tool), unavailable |-> MapSet(un, tool)]

fallbackIntoAvailable(av, un, tool) ==
  [available |-> MapSet(av, tool), unavailable |-> un]

success(av, un, tool) == [available |-> MapSet(av, tool), unavailable |-> un]

fallback(av, un, tool) == [available |-> av, unavailable |-> MapSet(un, tool)]

----------------------------------------------------------------------------
(* prepare(), up to the call of _.sequence: what it throws, or the list it *)
(* hands to the sequence, with the assignments made on the way.            *)

\* Mutant: the factory is built before the configuration is validated.
PrepareSyncFactoryFirst(tools) ==
  LET bad == validateTools(tools)
      merged == deepMerge(internalTools, tools)
      config == prepareConfig(merged)
  IN
  IF bad # NoTool
    THEN [ pc |-> "threw", error |-> [kind |-> "ConfigError", tool |-> bad],
           tools |-> tools, factory |-> [created |-> TRUE, config |-> config],
           list |-> <<>> ]
  ELSE IF HasNoClass(config)
    THEN [ pc |-> "threw", error |-> [kind |-> "TypeError", tool |-> NoTool],
           tools |-> [defined |-> TRUE, entries |-> merged],
           factory |-> [created |-> TRUE, config |-> config], list |-> <<>> ]
  ELSE [ pc |-> "pending", error |-> NoError,
         tools |-> [defined |-> TRUE, entries |-> merged],
         factory |-> [created |-> TRUE, config |-> config],
         list |-> getListOfPrepareFunctions(config) ]

PrepareSync(tools) ==
  LET bad == validateTools(tools)
      merged == deepMerge(internalTools, tools)
      config == prepareConfig(merged)
  IN
  IF bad # NoTool
    THEN [ pc |-> "threw", error |-> [kind |-> "ConfigError", tool |-> bad],
           tools |-> tools, factory |-> NoFactory, list |-> <<>> ]
  ELSE IF Len(merged) = 0
    THEN [ pc |-> "threw", error |-> [kind |-> "NoTools", tool |-> NoTool],
           tools |-> [defined |-> TRUE, entries |-> merged],
           factory |-> NoFactory, list |-> <<>> ]
  ELSE IF HasNoClass(config)
    THEN [ pc |-> "threw", error |-> [kind |-> "TypeError", tool |-> NoTool],
           tools |-> [defined |-> TRUE, entries |-> merged],
           factory |-> [created |-> TRUE, config |-> config], list |-> <<>> ]
  ELSE [ pc |-> IF Len(config) = 0 THEN "resolved" ELSE "pending",
         error |-> NoError,
         tools |-> [defined |-> TRUE, entries |-> merged],
         factory |-> [created |-> TRUE, config |-> config],
         list |-> getListOfPrepareFunctions(config) ]

Prepare ==
  /\ pc = "init"
  /\ LET r == PrepareSync(configTools) IN
       /\ pc' = r.pc
       /\ error' = r.error
       /\ configTools' = r.tools
       /\ factory' = r.factory
       /\ sequenceData' = r.list
  /\ UNCHANGED << userTools, next, inFlight, settled, toolsAvailable,
                  toolsUnavailable, inlineTools, blockTools, resetCalled, ret >>

----------------------------------------------------------------------------
(* _.sequence(sequenceData, success, fallback): one entry after another,   *)
(* the hook is called and awaited, then the callback of its outcome runs.  *)
(* next is the index of the next entry whose hook is to be called.         *)

\* Mutant: the next hook is called without awaiting the one in flight.
CanStartWhileFlying(list, k, flying) == k <= Len(list)

\* The sequence may call the hook of entry k now.
CanStart(list, k, flying) == flying = {} /\ k <= Len(list)

\* The promise of the sequence once a callback has run.
PromiseAfter(list, k, flying) ==
  IF k > Len(list) /\ flying = {} THEN "resolved" ELSE "pending"

ItemOf(list, n) == list[CHOOSE i \in 1..Len(list) : list[i].toolName = n]

StartHook ==
  /\ pc = "pending"
  /\ CanStart(sequenceData, next, inFlight)
  /\ inFlight' = inFlight \cup {sequenceData[next].toolName}
  /\ next' = next + 1
  /\ UNCHANGED << userTools, configTools, pc, error, factory, sequenceData,
                  settled, toolsAvailable, toolsUnavailable, inlineTools,
                  blockTools, resetCalled, ret >>

\* The hook (or the no-op standing in for it) returns or resolves:
\* success(data) runs.
HookResolves ==
  /\ pc = "pending"
  /\ \E n \in inFlight :
       LET r == success(toolsAvailable, toolsUnavailable, FactoryGet(factory.config, n))
       IN /\ toolsAvailable' = r.available
          /\ toolsUnavailable' = r.unavailable
          /\ inFlight' = inFlight \ {n}
          /\ settled' = Append(settled, [toolName |-> n, result |-> "ok"])
  /\ pc' = PromiseAfter(sequenceData, next, inFlight')
  /\ UNCHANGED << userTools, configTools, error, factory, sequenceData, next,
                  inlineTools, blockTools, resetCalled, ret >>

\* The hook throws or rejects (the no-op never does): fallback(data) runs.
HookRejects ==
  /\ pc = "pending"
  /\ \E n \in inFlight :
       LET r == fallback(toolsAvailable, toolsUnavailable, FactoryGet(factory.config, n))
       IN /\ ItemOf(sequenceData, n).hasHook
          /\ toolsAvailable' = r.available
          /\ toolsUnavailable' = r.unavailable
          /\ inFlight' = inFlight \ {n}
          /\ settled' = Append(settled, [toolName |-> n, result |-> "fail"])
  /\ pc' = PromiseAfter(sequenceData, next, inFlight')
  /\ UNCHANGED << userTools, configTools, error, factory, sequenceData, next,
                  inlineTools, blockTools, resetCalled, ret >>

----------------------------------------------------------------------------
(* get inline, get block, getInternal(type?)                               *)

notImplementedMethods(tool) == inlineToolRequiredMethods \ InstanceMethods(tool.cls)

\* Mutant: the method check is skipped, every Inline tool passes.
InlineFilterTypeOnly(tool) == tool.type = Inline

InlineFilter(tool) ==
  IF tool.type # Inline THEN FALSE
  ELSE IF notImplementedMethods(tool) # {} THEN FALSE
  ELSE TRUE

\* Mutant: the type is not looked at, every available tool is a block tool.
BlockFilterAnyType(tool) == tool.type \in ToolTypes

\* Mutant: Tune tools pass as block tools.
BlockFilterNotInline(tool) == tool.type # Inline

BlockFilter(tool) == tool.type = Block

\* if (type): the argument is given as <<>> (no argument) or <<type>>
Truthy(arg) == arg # <<>> /\ arg[1] # 0

IsInternal(tool) == tool.isInternal

getInternal(av, arg) ==
  LET tools == SelectSeq(av, IsInternal)
      OfType(tool) == tool.type = arg[1]
  IN IF Truthy(arg) THEN SelectSeq(tools, OfType) ELSE tools

\* Mutant: the getter filters available again on every read.
ReadInlineRecomputes ==
  /\ inlineTools' = [cached |-> TRUE, map |-> SelectSeq(toolsAvailable, InlineFilter)]
  /\ ret' = [op |-> "inline", arg |-> <<>>, name |-> "", val |-> inlineTools'.map]
  /\ UNCHANGED << userTools, configTools, pc, error, factory, sequenceData,
                  next, inFlight, settled, toolsAvailable, toolsUnavailable,
                  blockTools, resetCalled >>

ReadInline ==
  /\ IF inlineTools.cached
       THEN UNCHANGED inlineTools
       ELSE inlineTools' = [cached |-> TRUE, map |-> SelectSeq(toolsAvailable, InlineFilter)]
  /\ ret' = [op |-> "inline", arg |-> <<>>, name |-> "", val |-> inlineTools'.map]
  /\ UNCHANGED << userTools, configTools, pc, error, factory, sequenceData,
                  next, inFlight, settled, toolsAvailable, toolsUnavailable,
                  blockTools, resetCalled >>

ReadBlock ==
  /\ IF blockTools.cached
       THEN UNCHANGED blockTools
       ELSE blockTools' = [cached |-> TRUE, map |-> SelectSeq(toolsAvailable, BlockFilter)]
  /\ ret' = [op |-> "block", arg |-> <<>>, name |-> "", val |-> blockTools'.map]
  /\ UNCHANGED << userTools, configTools, pc, error, factory, sequenceData,
                  next, inFlight, settled, toolsAvailable, toolsUnavailable,
                  inlineTools, resetCalled >>

TypeArgs == {<<>>} \cup {<<t>> : t \in ToolTypes}

GetInternal ==
  /\ \E arg \in TypeArgs :
       ret' = [op |-> "getInternal", arg |-> arg, name |-> "",
               val |-> getInternal(toolsAvailable, arg)]
  /\ UNCHANGED << userTools, configTools, pc, error, factory, sequenceData,
                  next, inFlight, settled, toolsAvailable, toolsUnavailable,
                  inlineTools, blockTools, resetCalled >>

----------------------------------------------------------------------------
(* get defaultTool: this.block.get(this.config.defaultBlock)               *)

\* The values of config.defaultBlock explored: a built-in block, a user
\* block, a built-in inline tool, a name that is not configured.
DefaultBlocks == {"paragraph", "image", "bold", "header"}

\* Map.get: <<>> is undefined, else the one tool under the key.
MapGet(m, n) == SelectSeq(m, LAMBDA t : t.name = n)

DefaultTool ==
  /\ IF blockTools.cached
       THEN UNCHANGED blockTools
       ELSE blockTools' = [cached |-> TRUE, map |-> SelectSeq(toolsAvailable, BlockFilter)]
  /\ \E d \in DefaultBlocks :
       ret' = [op |-> "defaultTool", arg |-> <<>>, name |-> d,
               val |-> MapGet(blockTools'.map, d)]
  /\ UNCHANGED << userTools, configTools, pc, error, factory, sequenceData,
                  next, inFlight, settled, toolsAvailable, toolsUnavailable,
                  inlineTools, resetCalled >>

----------------------------------------------------------------------------
(* destroy()                                                               *)

\* _.isFunction(tool.reset): the tool object passes reset() on to the static
\* reset of its class.
ClassHasReset(c) == c \in {"Paragraph", "ImageTool", "BoldInlineTool"}

\* Object.values(x) for a Map x: the own enumerable string-keyed properties
\* of the object; the entries of a Map are none of them.
ObjectValues(m) == SubSeq(m, 1, 0)

\* The tools whose reset() the forEach callback of destroy() calls.
ResetTargets(m) ==
  LET values == ObjectValues(m)
  IN {values[i].name : i \in {j \in 1..Len(values) : ClassHasReset(values[j].cls)}}

\* Mutant: destroy() that also empties the registry.
DestroyClearsAvailable ==
  /\ resetCalled' = resetCalled \cup ResetTargets(toolsAvailable)
  /\ toolsAvailable' = <<>>
  /\ ret' = [op |-> "destroy", arg |-> <<>>, name |-> "", val |-> <<>>]
  /\ UNCHANGED << userTools, configTools, pc, error, factory, sequenceData,
                  next, inFlight, settled, toolsUnavailable, inlineTools,
                  blockTools >>

Destroy ==
  /\ resetCalled' = resetCalled \cup ResetTargets(toolsAvailable)
  /\ ret' = [op |-> "destroy", arg |-> <<>>, name |-> "", val |-> <<>>]
  /\ UNCHANGED << userTools, configTools, pc, error, factory, sequenceData,
                  next, inFlight, settled, toolsAvailable, toolsUnavailable,
                  inlineTools, blockTools >>

----------------------------------------------------------------------------
Next ==
  \/ Prepare
  \/ StartHook
  \/ HookResolves
  \/ HookRejects
  \/ ReadInline
  \/ ReadBlock
  \/ GetInternal
  \/ DefaultTool
  \/ Destroy

Spec == Init /\ [][Next]_vars

----------------------------------------------------------------------------
(* Vocabulary of the properties                                            *)

Settled == pc = "resolved"

MergedNames == Names(configTools.entries)

Available == Keys(toolsAvailable)
Unavailable == Keys(toolsUnavailable)

SettledNames(result) ==
  {settled[i].toolName : i \in {j \in 1..Len(settled) : settled[j].result = result}}

ListNames == {sequenceData[i].toolName : i \in 1..Len(sequenceData)}

----------------------------------------------------------------------------
\* C1 (partition): once prepare() has settled, every tool name of the merged
\* configuration is a key of exactly one of available and unavailable,
\* whatever hooks succeeded or failed.
C1_Partition ==
  Settled =>
    \A n \in MergedNames : (n \in Available) # (n \in Unavailable)

\* A settled preparation in which hooks both succeeded and failed.
C1_Witness ==
  /\ Settled
  /\ SettledNames("fail") # {}
  /\ SettledNames("ok") \cap (UserNames \ InternalNames) # {}

\* C2 (strictly sequential): at most one prepare hook is in flight, and while
\* the hook of an entry is in flight the hook of every earlier entry has
\* settled and its callback has bucketed the tool; no later hook has started.
C2_Sequential ==
  /\ Cardinality(inFlight) <= 1
  /\ \A i \in 1..Len(sequenceData) :
       sequenceData[i].toolName \in inFlight =>
         /\ next = i + 1
         /\ \A j \in 1..(i - 1) :
              /\ sequenceData[j].toolName \in SettledNames("ok") \cup SettledNames("fail")
              /\ sequenceData[j].toolName \in Available \cup Unavailable
         /\ \A j \in i..Len(sequenceData) :
              sequenceData[j].toolName \notin Available \cup Unavailable

\* The hook of a later entry is in flight after an earlier hook failed.
C2_Witness ==
  /\ inFlight # {}
  /\ SettledNames("fail") # {}
  /\ next > 6

\* C3 (failure containment): a tool whose hook failed is in unavailable and not
\* in available; a tool whose hook succeeded is and stays in available; after a
\* failure the sequence goes on (the promise is pending while entries remain,
\* resolved after the last one, never a throw), so when it has settled every
\* entry's hook has run and every tool sits where its own outcome puts it.
C3_Containment ==
  /\ \A n \in SettledNames("fail") : n \in Unavailable /\ n \notin Available
  /\ \A n \in SettledNames("ok") : n \in Available /\ n \notin Unavailable
  /\ SettledNames("fail") # {} =>
       /\ pc \in {"pending", "resolved"}
       /\ pc = "pending" <=> (next <= Len(sequenceData) \/ inFlight # {})
       /\ pc = "pending" /\ inFlight = {} => ENABLED StartHook
       /\ pc = "resolved" =>
            SettledNames("ok") \cup SettledNames("fail") = ListNames

\* A failed hook followed by a later hook that ran and succeeded.
C3_Witness ==
  /\ Settled
  /\ \E i, j \in 1..Len(settled) :
       /\ i < j
       /\ settled[i].result = "fail"
       /\ settled[j].result = "ok"
       /\ settled[j].toolName \in Available
       /\ settled[i].toolName \in Unavailable
  /\ \E i, j \in 1..Len(settled) :
       i < j /\ settled[i].result = "ok" /\ settled[j].result = "fail"

----------------------------------------------------------------------------
UserEntry(i) == userTools.entries[i]

UserIndexes == 1..Len(userTools.entries)

\* Neither a function nor an object with a function in its class field.
BadShape(v) ==
  /\ v.tag # "fn"
  /\ ~("class" \in DOMAIN v.fields /\ v.fields["class"] \in Classes)

\* C4 (shape validation): for every non-built-in name of the user
\* configuration whose value has a bad shape, prepare() throws the
\* configuration error naming that tool, wherever the entry sits.
C4_ShapeValidation ==
  pc # "init" =>
    \A i \in UserIndexes :
      (UserEntry(i).name \notin InternalNames /\ BadShape(UserEntry(i).value)) =>
        /\ pc = "threw"
        /\ error = [kind |-> "ConfigError", tool |-> UserEntry(i).name]

C6_BuiltInsPreserved ==
  (pc # "init" /\ error.kind # "ConfigError") =>
    /\ InternalNames \subseteq MergedNames
    /\ factory.created => InternalNames \subseteq Names(factory.config)

\* The user replaced the stub by a bare class and the name is still there.
C6_Witness ==
  /\ Settled
  /\ \E i \in UserIndexes :
       UserEntry(i).name = "stub" /\ isFunction(UserEntry(i).value)
  /\ \E i \in 1..Len(factory.config) :
       /\ factory.config[i].name = "stub"
       /\ factory.config[i].value.fields["class"] = "ImageTool"

\* C7: with an empty (or undefined) user configuration, after prepare() has
\* settled the keys of available are exactly the five built-in names and
\* unavailable is empty.
C7_EmptyUserConfig ==
  (Settled /\ userTools.entries = <<>>) =>
    /\ Available = InternalNames
    /\ toolsUnavailable = <<>>

C7_Witness ==
  /\ Settled
  /\ userTools.entries = <<>>
  /\ ~userTools.defined
  /\ Len(toolsAvailable) = 5

BuiltInFields(n) == internalTools[IndexOf(internalTools, n)].value.fields

Descriptor(n) == factory.config[IndexOf(factory.config, n)].value.fields

\* C8 (field-wise override): when the user configuration gives a settings
\* object for a built-in name, the normalized descriptor of that name has the
\* user's value for every field the user set and the built-in value for
\* every built-in field the user did not set.
C8_FieldwiseMerge ==
  factory.created =>
    \A i \in UserIndexes :
      (UserEntry(i).name \in InternalNames /\ isObject(UserEntry(i).value)) =>
        LET d == Descriptor(UserEntry(i).name)
            u == UserEntry(i).value.fields
            b == BuiltInFields(UserEntry(i).name)
        IN /\ \A f \in DOMAIN u : f \in DOMAIN d /\ d[f] = u[f]
           /\ \A f \in DOMAIN b \ DOMAIN u : f \in DOMAIN d /\ d[f] = b[f]

\* paragraph: {inlineToolbar: false} keeps the Paragraph class.
C8_Witness ==
  /\ factory.created
  /\ \E i \in UserIndexes :
       UserEntry(i) = Entry("paragraph", Obj([inlineToolbar |-> "false"]))
  /\ Descriptor("paragraph") =
       [class |-> "Paragraph", inlineToolbar |-> "false", isInternal |-> "true"]

ToolsOf(m) == {m[i] : i \in 1..Len(m)}

ImplementsInline(t) == inlineToolRequiredMethods \subseteq InstanceMethods(t.cls)

C10_GetInternal ==
  [][ (ret'.op = "getInternal" /\ ret' # ret) =>
        ToolsOf(ret'.val) =
          { t \in ToolsOf(toolsAvailable) :
              t.isInternal /\ (ret'.arg = <<>> \/ t.type = ret'.arg[1]) }
    ]_vars

----------------------------------------------------------------------------
\* This step is a call of the getter or method op.
Called(op) == ret'.op = op /\ ret' # ret

AvailableTools == ToolsOf(toolsAvailable)

\* The cached block view holds exactly the available tools of type Block.
BlockViewCurrent ==
  ToolsOf(blockTools.map) = {t \in AvailableTools : t.type = Block}

\* The cached inline view holds exactly the available valid Inline tools.
InlineViewCurrent ==
  ToolsOf(inlineTools.map) =
    {t \in AvailableTools : t.type = Inline /\ ImplementsInline(t)}

\* C11 as stated: after prepare() has settled, defaultTool returns the
\* available Block tool whose name is the configured default block name, and
\* undefined when no available Block tool has that name.
C11_DefaultTool ==
  [][ (Called("defaultTool") /\ Settled) =>
        ToolsOf(ret'.val) =
          {t \in AvailableTools : t.type = Block /\ t.name = ret'.name}
    ]_vars

\* C11 amended: defaultTool returns the entry of the cached block view under
\* the configured name, or undefined, and never throws.  After prepare() has
\* settled this is the available Block tool of that name provided the block
\* view was not cached before that tool was bucketed (the view is computed by
\* this call, or the cached one holds every available Block tool); a block
\* view cached earlier lacks the tool and defaultTool returns undefined.
C11_DefaultToolOfView ==
  [][ Called("defaultTool") =>
        /\ Len(ret'.val) <= 1
        /\ ToolsOf(ret'.val) \subseteq
             {t \in AvailableTools : t.type = Block /\ t.name = ret'.name}
        /\ (Settled /\ (~blockTools.cached \/ BlockViewCurrent)) =>
             ToolsOf(ret'.val) =
               {t \in AvailableTools : t.type = Block /\ t.name = ret'.name}
    ]_vars

\* defaultTool returned the paragraph block after prepare() settled.
C11_Witness ==
  /\ Settled
  /\ ret.op = "defaultTool"
  /\ ret.name = "paragraph"
  /\ Len(ret.val) = 1
  /\ ret.val[1].name = "paragraph"
  /\ ret.val[1].type = Block

\* C12 (cached views): once a view is cached no step changes it, whatever
\* happens to available in between, and every read of inline (block) returns
\* the cached mapping: the filter runs on the first read only.
C12_CachedViews ==
  [][ /\ inlineTools.cached => inlineTools' = inlineTools
      /\ blockTools.cached => blockTools' = blockTools
      /\ Called("inline") =>
           /\ inlineTools'.cached
           /\ ret'.val = inlineTools'.map
      /\ Called("block") =>
           /\ blockTools'.cached
           /\ ret'.val = blockTools'.map
    ]_vars

\* The inline view was read and cached, available gained a valid Inline tool
\* after that, and the view read is still the mapping cached first.
C12_Witness ==
  /\ inlineTools.cached
  /\ ret.op = "inline"
  /\ ret.val = inlineTools.map
  /\ ~InlineViewCurrent

\* C13 (destroy): destroy() calls reset() of every tool of available that has
\* one.
C13_DestroyResets ==
  [][ Called("destroy") =>
        \A t \in AvailableTools : ClassHasReset(t.cls) => t.name \in resetCalled'
    ]_vars

----------------------------------------------------------------------------
ConfigIndexes == 1..Len(factory.config)

ConfigClass(i) == factory.config[i].value.fields["class"]

\* C14: a tool whose class has no prepare hook goes to success(): its hook
\* never settles as a failure, and after prepare() has settled it is in
\* available and not in unavailable, whatever the other hooks do.
C14_NoHookSucceeds ==
  pc \in {"pending", "resolved"} =>
    \A i \in ConfigIndexes :
      ~ClassHasPrepare(ConfigClass(i)) =>
        /\ factory.config[i].name \notin SettledNames("fail")
        /\ factory.config[i].name \notin Unavailable
        /\ Settled => factory.config[i].name \in Available

\* The user tool marker has no prepare hook and is available, while the
\* hook of another tool failed.
C14_Witness ==
  /\ Settled
  /\ "marker" \in Available
  /\ SettledNames("fail") # {}

\* The index of the first built-in name of the user configuration, or one
\* past its end.
FirstBuiltIn ==
  LET S == {i \in UserIndexes : UserEntry(i).name \in InternalNames}
  IN IF S = {} THEN Len(userTools.entries) + 1
     ELSE CHOOSE i \in S : \A j \in S : i <= j

\* C15 (validation short-circuit): the entries before the first built-in name
\* are shape-checked in order (the first bad one is the tool the configuration
\* error names); the built-in entry and every entry after it are not checked,
\* so a bad shape there raises no configuration error.
C15_ShortCircuit ==
  pc # "init" =>
    LET bad == {i \in 1..(FirstBuiltIn - 1) : BadShape(UserEntry(i).value)}
    IN /\ bad # {} =>
            /\ pc = "threw"
            /\ error.kind = "ConfigError"
            /\ \E i \in bad : /\ \A j \in bad : i <= j
                              /\ error.tool = UserEntry(i).name
       /\ bad = {} => error.kind # "ConfigError"

\* A bad entry after a built-in name went through validateTools unchecked.
C15_Witness ==
  /\ pc # "init"
  /\ \E i, j \in UserIndexes :
       /\ i < j
       /\ UserEntry(i).name \in InternalNames
       /\ UserEntry(j).name \notin InternalNames
       /\ BadShape(UserEntry(j).value)
  /\ error.kind # "ConfigError"

\* The map that the callbacks build from the hooks settled with `result`.
Bucket(result) ==
  LET hooks == SelectSeq(settled, LAMBDA h : h.result = result)
  IN [i \in 1..Len(hooks) |-> FactoryGet(factory.config, hooks[i].toolName)]

\* C16 (deterministic order): the list of hooks follows the order of the
\* normalized configuration, which is that of the merged one; hooks are
\* started and settle in that order; and the two maps are a function of the
\* configuration and the hook outcomes: each holds, in that order, the tools
\* whose hook had the outcome of the map.
C16_Order ==
  pc \in {"pending", "resolved"} =>
    /\ Len(sequenceData) = Len(factory.config)
    /\ Len(factory.config) = Len(configTools.entries)
    /\ \A i \in ConfigIndexes :
         /\ sequenceData[i].toolName = factory.config[i].name
         /\ factory.config[i].name = configTools.entries[i].name
    /\ \A i \in 1..Len(settled) : settled[i].toolName = factory.config[i].name
    /\ next \in {Len(settled) + 1, Len(settled) + 2}
    /\ inFlight = {factory.config[i].name : i \in (Len(settled) + 1)..(next - 1)}
    /\ toolsAvailable = Bucket("ok")
    /\ toolsUnavailable = Bucket("fail")

\* Two user tools were prepared after the built-ins, one failed.
C16_Witness ==
  /\ Settled
  /\ Len(settled) = 7
  /\ settled[6].result = "fail"
  /\ settled[7].result = "ok"
  /\ settled[7].toolName \in UserNames

\* C17 (stall on a hung hook): as long as the hook of an entry stays in flight
\* no step starts another hook, adds a tool to available or unavailable or
\* settles the promise; the tools at and after that entry are in neither map.
\* Only the settling of the hook lets the sequence go on.
C17_Stall ==
  [][ \A n \in inFlight \cap inFlight' :
        /\ next' = next
        /\ settled' = settled
        /\ toolsAvailable' = toolsAvailable
        /\ toolsUnavailable' = toolsUnavailable
        /\ pc = "pending" /\ pc' = "pending"
        /\ \A i \in 1..Len(sequenceData) :
             sequenceData[i].toolName = n =>
               \A j \in i..Len(sequenceData) :
                 sequenceData[j].toolName \notin Available \cup Unavailable
    ]_vars

\* The hook of image is in flight, a later entry waits, and other operations
\* of the registry have run meanwhile.
C17_Witness ==
  /\ inFlight = {"image"}
  /\ next <= Len(sequenceData)
  /\ ret.op = "destroy"
  /\ inlineTools.cached

\* C18 (frame): a step changes available or unavailable only while prepare()
\* is pending, and then it is the callback of one settled hook that sets one
\* entry of one map; reads of the views, defaultTool, getInternal and destroy
\* change neither map, and after prepare() has settled nothing does.
C18_Frame ==
  [][ (toolsAvailable' # toolsAvailable \/ toolsUnavailable' # toolsUnavailable) =>
        /\ pc = "pending"
        /\ ret' = ret
        /\ Len(settled') = Len(settled) + 1
        /\ LET tool == FactoryGet(factory.config, settled'[Len(settled')].toolName)
           IN \/ /\ toolsAvailable' = MapSet(toolsAvailable, tool)
                 /\ toolsUnavailable' = toolsUnavailable
              \/ /\ toolsUnavailable' = MapSet(toolsUnavailable, tool)
                 /\ toolsAvailable' = toolsAvailable
    ]_vars

\* destroy() ran after prepare() settled and the maps hold all the tools.
C18_Witness ==
  /\ Settled
  /\ ret.op = "destroy"
  /\ inlineTools.cached
  /\ blockTools.cached
  /\ Len(toolsAvailable) + Len(toolsUnavailable) = Len(factory.config)
  /\ toolsUnavailable # <<>>

\* C19 (fatal errors first): when prepare() has thrown a configuration error
\* (bad tool shape, or no tools) the factory was not created, no hook was
\* called and no tool obtained: both maps are empty.
C19_FatalFirst ==
  (pc = "threw" /\ error.kind \in {"ConfigError", "NoTools"}) =>
    /\ ~factory.created
    /\ sequenceData = <<>>
    /\ next = 1
    /\ inFlight = {}
    /\ settled = <<>>
    /\ toolsAvailable = <<>>
    /\ toolsUnavailable = <<>>

\* prepare() threw the configuration error naming image.
C19_Witness ==
  /\ pc = "threw"
  /\ error = [kind |-> "ConfigError", tool |-> "image"]

\* C20 as stated: after prepare() has settled a cached block view is exactly
\* the available Block tools and a cached inline view exactly the available
\* valid Inline tools, whenever the view was first read.
C20_ViewsConsistent ==
  Settled =>
    /\ blockTools.cached => BlockViewCurrent
    /\ inlineTools.cached => InlineViewCurrent

\* C20 amended: a view first read after prepare() has settled is exactly the
\* available Block tools (valid Inline tools) and stays so; a view first read
\* earlier holds only tools that were available and passed the filter at
\* that read, a subset of them, and is not brought up to date.
C20_ViewsOfFirstRead ==
  [][ /\ (Settled /\ ~blockTools.cached /\ blockTools'.cached) => BlockViewCurrent'
      /\ (Settled /\ blockTools.cached /\ BlockViewCurrent) => BlockViewCurrent'
      /\ (Settled /\ ~inlineTools.cached /\ inlineTools'.cached) => InlineViewCurrent'
      /\ (Settled /\ inlineTools.cached /\ InlineViewCurrent) => InlineViewCurrent'
      /\ blockTools'.cached =>
           ToolsOf(blockTools'.map) \subseteq {t \in AvailableTools' : t.type = Block}
      /\ inlineTools'.cached =>
           ToolsOf(inlineTools'.map) \subseteq
             {t \in AvailableTools' : t.type = Inline /\ ImplementsInline(t)}
    ]_vars

\* Both views were first read after prepare() settled and hold the user's
\* tools next to the built-in ones; a tune is available and in neither.
C20_Witness ==
  /\ Settled
  /\ blockTools.cached /\ BlockViewCurrent
  /\ inlineTools.cached /\ InlineViewCurrent
  /\ "image" \in Keys(blockTools.map)
  /\ "align" \in Available

====
